---- MODULE Spec2Model ----
(***************************************************************************)
(* Excel Worksheet Unprotector (src/main.py).                              *)
(*                                                                         *)
(* A payload is a sequence of byte chunks.  The chunks are the pieces of   *)
(* text the regular expression of line 36 distinguishes, each standing for *)
(* its own bytes:                                                          *)
(*    "<"                the byte 0x3C                                     *)
(*    "sheetProtection"  the 15 ASCII bytes of the tag name                *)
(*    "/>"               the two bytes 0x2F 0x3E                           *)
(*    "LF"               the newline byte 0x0A ('.' does not match it)     *)
(*    "C3", "A9"         the bytes 0xC3 and 0xA9: together the UTF-8       *)
(*                       encoding of U+00E9, each alone invalid UTF-8      *)
(* The concatenation of the chunks is the real payload: "<sheetProtection" *)
(* occurs in it exactly where "<" is followed by "sheetProtection", and    *)
(* "/>" exactly at a "/>" chunk.                                           *)
(***************************************************************************)
EXTENDS Naturals, Sequences, FiniteSets

\* ------------------------------------------------------------------ bounds
\* The longest payload of SpecIdem, in chunks; the most entries of a container
\* of Spec; the most worker threads alive at once in SpecGui.
MaxBufLen == 6
MaxEntries == 2
MaxThreads == 2

\* ------------------------------------------------------------- text, bytes
Bytes == {"<", "sheetProtection", "/>", "LF", "C3", "A9"}

RECURSIVE SeqsUpTo(_, _)
SeqsUpTo(S, n) ==
    IF n = 0 THEN {<<>>}
    ELSE LET shorter == SeqsUpTo(S, n - 1)
         IN  shorter \cup {Append(s, x) : s \in {t \in shorter : Len(t) = n - 1}, x \in S}

\* buffer.decode('utf-8'): strict; ok = FALSE is UnicodeDecodeError.
RECURSIVE Utf8Decode(_)
Utf8Decode(b) ==
    IF b = <<>> THEN [ok |-> TRUE, text |-> <<>>]
    ELSE IF Head(b) = "C3"
         THEN IF Len(b) >= 2 /\ b[2] = "A9"
              THEN LET rest == Utf8Decode(Tail(Tail(b)))
                   IN  [ok |-> rest.ok, text |-> <<"U+00E9">> \o rest.text]
              ELSE [ok |-> FALSE, text |-> <<>>]
         ELSE IF Head(b) = "A9"
              THEN [ok |-> FALSE, text |-> <<>>]
              ELSE LET rest == Utf8Decode(Tail(b))
                   IN  [ok |-> rest.ok, text |-> <<Head(b)>> \o rest.text]

\* new_xml_content.encode('utf-8')
RECURSIVE Utf8Encode(_)
Utf8Encode(t) ==
    IF t = <<>> THEN <<>>
    ELSE (IF Head(t) = "U+00E9" THEN <<"C3", "A9">> ELSE <<Head(t)>>)
         \o Utf8Encode(Tail(t))

\* ---------------------------------------------------------------- the regex
\* re.compile(r"<sheetProtection.*?/>"): a literal, a lazy run of '.', a literal.
OpenSeq == <<"<", "sheetProtection">>
CloseSeq == <<"/>">>

\* The literal lit matches text at position p (1-based).
LitAt(text, p, lit) ==
    /\ p + Len(lit) - 1 <= Len(text)
    /\ \A k \in 1..Len(lit) : text[p + k - 1] = lit[k]

\* '.' without re.DOTALL: any character except a newline.
DotMatches(c) == c # "LF"

\* ".*?/>" tried from position j: the closing literal here, else one more '.'
\* and again.  The position after the match, 0 when there is none.
RECURSIVE LazyClose(_, _)
LazyClose(text, j) ==
    IF LitAt(text, j, CloseSeq) THEN j + Len(CloseSeq)
    ELSE IF j <= Len(text) /\ DotMatches(text[j]) THEN LazyClose(text, j + 1)
    ELSE 0

\* protection_regex.match at position p: the position after the match, 0 for none.
MatchEnd(text, p) ==
    IF LitAt(text, p, OpenSeq) THEN LazyClose(text, p + Len(OpenSeq)) ELSE 0

\* protection_regex.subn('', text) from position p on: the text kept and the
\* number of replacements, scanning left to right past each match.
RECURSIVE SubnFrom(_, _)
SubnFrom(text, p) ==
    IF p > Len(text) THEN [text |-> <<>>, n |-> 0]
    ELSE LET e == MatchEnd(text, p)
         IN  IF e # 0
             THEN LET r == SubnFrom(text, e) IN [text |-> r.text, n |-> r.n + 1]
             ELSE LET r == SubnFrom(text, p + 1)
                  IN  [text |-> <<text[p]>> \o r.text, n |-> r.n]

\* Mutant of Subn: only the first match is replaced (count=1).
RECURSIVE SubnFirstFrom(_, _)
SubnFirstFrom(text, p) ==
    IF p > Len(text) THEN [text |-> <<>>, n |-> 0]
    ELSE LET e == MatchEnd(text, p)
         IN  IF e # 0
             THEN [text |-> SubSeq(text, e, Len(text)), n |-> 1]
             ELSE LET r == SubnFirstFrom(text, p + 1)
                  IN  [text |-> <<text[p]>> \o r.text, n |-> r.n]

SubnFirstOnly(text) == SubnFirstFrom(text, 1)

\* protection_regex.subn('', xml_content), line 51.
Subn(text) == SubnFrom(text, 1)

\* ------------------------------------------------------------ the container
\* An entry name, split at its '/' separators.
SHEET1 == <<"xl", "worksheets", "sheet1.xml">>
SHEET2 == <<"xl", "worksheets", "sheet2.xml">>
WORKBOOK == <<"xl", "workbook.xml">>
EntryNames == {SHEET1, SHEET2, WORKBOOK}

\* Mutant of StartsWithWorksheets: the prefix cut to 'xl/'.
StartsWithXl(name) ==
    /\ Len(name) >= 2
    /\ name[1] = "xl"

\* item.filename.startswith('xl/worksheets/')
StartsWithWorksheets(name) ==
    /\ Len(name) >= 3
    /\ name[1] = "xl"
    /\ name[2] = "worksheets"

Names(entries) == [i \in 1..Len(entries) |-> entries[i].name]

UniqueNames(entries) ==
    \A i, j \in 1..Len(entries) : entries[i].name = entries[j].name => i = j

\* A file of the file system: absent, not a zip container, a zip container
\* with its central directory written ("zip"), or a container a ZipFile in
\* mode 'w' has begun and not closed ("writing": truncated, no directory yet).
AbsentFile == [kind |-> "absent", entries |-> <<>>]
NotZipFile == [kind |-> "notzip", entries |-> <<>>]
ZipOf(entries) == [kind |-> "zip", entries |-> entries]

\* zin.read(name) on the file as it is on disk now: the payload of the entry
\* of that name; ok = FALSE when the file no longer holds a readable container.
ZipRead(file, name) ==
    IF file.kind = "zip" /\ \E i \in 1..Len(file.entries) : file.entries[i].name = name
    THEN LET i == CHOOSE k \in 1..Len(file.entries) :
                      /\ file.entries[k].name = name
                      /\ \A m \in 1..Len(file.entries) :
                             file.entries[m].name = name => m <= k
         IN  [ok |-> TRUE, data |-> file.entries[i].payload]
    ELSE [ok |-> FALSE, data |-> <<>>]

\* Lines 46-63 for one item: the payload written under the item's name, the
\* number of replacements, and whether decode raised.
TransformEntry(name, buffer) ==
    IF StartsWithWorksheets(name)
    THEN LET xml_content == Utf8Decode(buffer)
         IN  IF ~xml_content.ok
             THEN [raised |-> TRUE, data |-> <<>>, n |-> 0]
             ELSE LET r == Subn(xml_content.text)
                  IN  IF r.n > 0
                      THEN [raised |-> FALSE, data |-> Utf8Encode(r.text), n |-> r.n]
                      ELSE [raised |-> FALSE, data |-> buffer, n |-> 0]
    ELSE [raised |-> FALSE, data |-> buffer, n |-> 0]

\* -------------------------------------------------------------------- state
VARIABLES
    fs,                \* path -> file
    fs0,               \* the file system when the current run began (history)
    input_filename, output_filename,
    pc,                \* where remove_excel_protection is
    run,               \* 1 for the first call, 2 for the call on its output
    infolist,          \* zin.infolist(): the names read when the source was opened
    idx,               \* the loop's position in infolist
    protection_found_in_any_sheet,
    messages,          \* the calls of status_callback, in order
    messagebox,        \* the dialog shown at the end
    input_file_path, run_button, select_button,   \* App
    threads            \* the worker threads run_process_thread started

archive_vars == <<fs, fs0, input_filename, output_filename, pc, run, infolist, idx,
                  protection_found_in_any_sheet, messages, messagebox>>
gui_vars == <<input_file_path, run_button, select_button, threads>>
vars == <<archive_vars, gui_vars>>

IN_PATH == "in.xlsx"
OUT_PATH == "out.xlsx"
SECOND_PATH == "second.xlsx"
Paths == {IN_PATH, OUT_PATH, SECOND_PATH}

\* ------------------------------------------- remove_excel_protection, by step
\* Mutant of OpenSource: the destination is opened for writing before the
\* source is opened for reading.
OpenSource_DestFirst ==
    /\ pc = "start"
    /\ fs' = [fs EXCEPT ![output_filename] = [kind |-> "writing", entries |-> <<>>]]
    /\ IF fs[input_filename].kind = "zip"
       THEN /\ infolist' = Names(fs[input_filename].entries)
            /\ pc' = "loop"
       ELSE /\ infolist' = <<>>
            /\ pc' = "unwind"
    /\ idx' = 1
    /\ UNCHANGED <<fs0, input_filename, output_filename, run,
                   protection_found_in_any_sheet, messages, messagebox, gui_vars>>

\* Line 39: ZipFile(input_filename, 'r') reads the central directory.
OpenSource ==
    /\ pc = "start"
    /\ IF fs[input_filename].kind = "zip"
       THEN /\ infolist' = Names(fs[input_filename].entries)
            /\ pc' = "open_dst"
       ELSE /\ infolist' = <<>>
            /\ pc' = "except"
    /\ idx' = 1
    /\ UNCHANGED <<fs, fs0, input_filename, output_filename, run,
                   protection_found_in_any_sheet, messages, messagebox, gui_vars>>

\* Line 40: ZipFile(output_filename, 'w') creates or truncates the file.
OpenDest ==
    /\ pc = "open_dst"
    /\ fs' = [fs EXCEPT ![output_filename] = [kind |-> "writing", entries |-> <<>>]]
    /\ pc' = "loop"
    /\ UNCHANGED <<fs0, input_filename, output_filename, run, infolist, idx,
                   protection_found_in_any_sheet, messages, messagebox, gui_vars>>

RemovedMsg(name) == [text |-> "Found and removed protection in", arg |-> name]
SuccessMsg(path) == [text |-> "Success! Unprotected file saved as", arg |-> path]
NoProtectionMsg == [text |-> "No worksheet protection was found in the file.", arg |-> ""]
ErrorMsg == [text |-> "An error occurred", arg |-> ""]

\* Mutant of WriteStr: an empty payload is not written.
WriteStr_SkipEmpty(file, name, data) ==
    IF data = <<>> THEN file
    ELSE [file EXCEPT !.entries = Append(@, [name |-> name, payload |-> data])]

\* zout.writestr(item, data), lines 57, 60 and 63: one more entry, under the
\* item's name, after those already written.
WriteStr(file, name, data) ==
    [file EXCEPT !.entries = Append(@, [name |-> name, payload |-> data])]

\* Lines 41-63, one iteration: read the item, rewrite it if it is a worksheet
\* with a match, write it.  A failed read or decode leaves the loop.
ProcessItem ==
    /\ pc = "loop"
    /\ idx <= Len(infolist)
    /\ LET name == infolist[idx]
           buffer == ZipRead(fs[input_filename], name)
           t == TransformEntry(name, buffer.data)
       IN  IF ~buffer.ok \/ t.raised
           THEN /\ pc' = "unwind"
                /\ UNCHANGED <<fs, idx, protection_found_in_any_sheet, messages>>
           ELSE /\ fs' = [fs EXCEPT ![output_filename] = WriteStr(@, name, t.data)]
                /\ protection_found_in_any_sheet' =
                       (protection_found_in_any_sheet \/ t.n > 0)
                /\ messages' = IF t.n > 0 THEN Append(messages, RemovedMsg(name))
                                          ELSE messages
                /\ idx' = idx + 1
                /\ pc' = "loop"
    /\ UNCHANGED <<fs0, input_filename, output_filename, run, infolist,
                   messagebox, gui_vars>>

\* zout.close(): the central directory is written and the file is a container.
Finalized(file) == [file EXCEPT !.kind = "zip"]

\* The end of the two with blocks after the last item.
CloseArchives ==
    /\ pc = "loop"
    /\ idx > Len(infolist)
    /\ fs' = [fs EXCEPT ![output_filename] = Finalized(@)]
    /\ pc' = "report"
    /\ UNCHANGED <<fs0, input_filename, output_filename, run, infolist, idx,
                   protection_found_in_any_sheet, messages, messagebox, gui_vars>>

\* The end of the two with blocks when an exception passes through them:
\* ZipFile.__exit__ closes zout just the same.
Unwind ==
    /\ pc = "unwind"
    /\ fs' = [fs EXCEPT ![output_filename] = Finalized(@)]
    /\ pc' = "except"
    /\ UNCHANGED <<fs0, input_filename, output_filename, run, infolist, idx,
                   protection_found_in_any_sheet, messages, messagebox, gui_vars>>

\* Mutant of Report: success is reported whatever the flag says.
Report_AlwaysSuccess ==
    /\ pc = "report"
    /\ messages' = Append(messages, SuccessMsg(output_filename))
    /\ messagebox' = "showinfo"
    /\ pc' = "done"
    /\ UNCHANGED <<fs, fs0, input_filename, output_filename, run, infolist, idx,
                   protection_found_in_any_sheet, gui_vars>>

\* Lines 65-70.
Report ==
    /\ pc = "report"
    /\ IF protection_found_in_any_sheet
       THEN /\ messages' = Append(messages, SuccessMsg(output_filename))
            /\ messagebox' = "showinfo"
       ELSE /\ messages' = Append(messages, NoProtectionMsg)
            /\ messagebox' = "showwarning"
    /\ pc' = "done"
    /\ UNCHANGED <<fs, fs0, input_filename, output_filename, run, infolist, idx,
                   protection_found_in_any_sheet, gui_vars>>

\* Lines 72-74.
Except ==
    /\ pc = "except"
    /\ messages' = Append(messages, ErrorMsg)
    /\ messagebox' = "showerror"
    /\ pc' = "done"
    /\ UNCHANGED <<fs, fs0, input_filename, output_filename, run, infolist, idx,
                   protection_found_in_any_sheet, gui_vars>>

\* The tool run again, on the file the first run saved.
Rerun ==
    /\ pc = "done"
    /\ run = 1
    /\ messagebox # "showerror"
    /\ input_filename' = output_filename
    /\ output_filename' = SECOND_PATH
    /\ run' = 2
    /\ pc' = "start"
    /\ infolist' = <<>>
    /\ idx' = 1
    /\ protection_found_in_any_sheet' = FALSE
    /\ messages' = <<>>
    /\ messagebox' = "none"
    /\ fs0' = fs
    /\ UNCHANGED <<fs, gui_vars>>

Next ==
    \/ OpenSource
    \/ OpenDest
    \/ ProcessItem
    \/ CloseArchives
    \/ Unwind
    \/ Report
    \/ Except

NextIdem == Next \/ Rerun

\* ---------------------------------------------------------------------- App
InputPaths == {"", "a.xlsx", "b.xlsx"}
OutputPaths == {"", "a_unprotected.xlsx"}

\* A slot of threads with no thread in it.
IdleThread == [pc |-> "idle", output_path |-> "", input_filename |-> ""]

\* Lines 101-115; the button invokes its command only in state "normal".
\* path is what the file dialog returned ("" when cancelled).
select_file(path) ==
    /\ select_button = "normal"
    /\ IF path # ""
       THEN /\ input_file_path' = path
            /\ run_button' = "normal"
       ELSE /\ input_file_path' = ""
            /\ run_button' = "disabled"
    /\ UNCHANGED <<select_button, threads, archive_vars>>

\* Lines 121-142; output_path is what the save dialog returned.
run_process_thread(output_path) ==
    /\ run_button = "normal"
    /\ IF input_file_path # "" /\ output_path # ""
       THEN \E t \in 1..MaxThreads :
                /\ threads[t].pc = "idle"
                /\ run_button' = "disabled"
                /\ select_button' = "disabled"
                /\ threads' = [threads EXCEPT ![t] =
                       [pc |-> "started", output_path |-> output_path,
                        input_filename |-> ""]]
       ELSE UNCHANGED <<run_button, select_button, threads>>
    /\ UNCHANGED <<input_file_path, archive_vars>>

\* Line 146, the call: the worker reads self.input_file_path now.
WorkerCall(t) ==
    /\ threads[t].pc = "started"
    /\ threads' = [threads EXCEPT ![t].pc = "in_call",
                                  ![t].input_filename = input_file_path]
    /\ UNCHANGED <<input_file_path, run_button, select_button, archive_vars>>

\* Line 146, the return of remove_excel_protection.
WorkerReturn(t) ==
    /\ threads[t].pc = "in_call"
    /\ threads' = [threads EXCEPT ![t].pc = "returned"]
    /\ UNCHANGED <<input_file_path, run_button, select_button, archive_vars>>

\* Line 148.
WorkerEnableRun(t) ==
    /\ threads[t].pc = "returned"
    /\ run_button' = "normal"
    /\ threads' = [threads EXCEPT ![t].pc = "line149"]
    /\ UNCHANGED <<input_file_path, select_button, archive_vars>>

\* Line 149, and the thread ends.
WorkerEnableSelect(t) ==
    /\ threads[t].pc = "line149"
    /\ select_button' = "normal"
    /\ threads' = [threads EXCEPT ![t] = IdleThread]
    /\ UNCHANGED <<input_file_path, run_button, archive_vars>>

NextGui ==
    \/ \E path \in InputPaths : select_file(path)
    \/ \E output_path \in OutputPaths : run_process_thread(output_path)
    \/ \E t \in 1..MaxThreads : WorkerCall(t)
    \/ \E t \in 1..MaxThreads : WorkerReturn(t)
    \/ \E t \in 1..MaxThreads : WorkerEnableRun(t)
    \/ \E t \in 1..MaxThreads : WorkerEnableSelect(t)

\* ------------------------------------------------------------ initial states
\* App.__init__, lines 83-99.
GuiIdle ==
    /\ input_file_path = ""
    /\ run_button = "disabled"
    /\ select_button = "normal"
    /\ threads = [t \in 1..MaxThreads |-> IdleThread]

ArchiveStart ==
    /\ fs0 = fs
    /\ pc = "start"
    /\ run = 1
    /\ infolist = <<>>
    /\ idx = 1
    /\ protection_found_in_any_sheet = FALSE
    /\ messages = <<>>
    /\ messagebox = "none"

\* A source of one entry: a worksheet holding any buffer of at most MaxBufLen
\* chunks, or a pass-through entry holding any buffer two chunks shorter.
InitIdem ==
    /\ \E name \in {SHEET1, WORKBOOK} :
         \E buffer \in SeqsUpTo(Bytes, IF name = SHEET1 THEN MaxBufLen ELSE MaxBufLen - 2) :
           fs = [p \in Paths |->
                    IF p = IN_PATH THEN ZipOf(<<[name |-> name, payload |-> buffer]>>)
                    ELSE AbsentFile]
    /\ input_filename = IN_PATH
    /\ output_filename = OUT_PATH
    /\ ArchiveStart
    /\ GuiIdle

SpecIdem == InitIdem /\ [][NextIdem]_vars

\* Payloads of the containers of Init: empty, one marker, a marker with
\* attributes and text around it, a marker over two lines, text with no
\* marker, bytes that are not UTF-8.
SamplePayloads ==
    { <<>>,
      <<"<", "sheetProtection", "/>">>,
      <<"C3", "A9", "<", "sheetProtection", "C3", "A9", "/>", "LF">>,
      <<"<", "sheetProtection", "LF", "/>">>,
      <<"C3", "A9">>,
      <<"A9">> }

\* The containers of at most n entries with unique names.
RECURSIVE Containers(_)
Containers(n) ==
    IF n = 0 THEN {<<>>}
    ELSE LET shorter == Containers(n - 1)
         IN  shorter \cup
             {Append(c, [name |-> nm, payload |-> pl]) :
                 c \in {d \in shorter : Len(d) = n - 1},
                 nm \in EntryNames, pl \in SamplePayloads}

\* A file already at the destination path.
OldEntries == <<[name |-> WORKBOOK, payload |-> <<"LF">>]>>

Init ==
    /\ \E src \in {AbsentFile, NotZipFile}
                  \cup {ZipOf(c) : c \in {d \in Containers(MaxEntries) : UniqueNames(d)}},
          old \in {AbsentFile, NotZipFile, ZipOf(OldEntries)} :
           fs = [p \in Paths |->
                    IF p = IN_PATH THEN src ELSE IF p = OUT_PATH THEN old ELSE AbsentFile]
    /\ input_filename = IN_PATH
    /\ output_filename \in {IN_PATH, OUT_PATH}
    /\ ArchiveStart
    /\ GuiIdle

Spec == Init /\ [][Next]_vars

ArchiveIdle ==
    /\ fs = [p \in Paths |-> AbsentFile]
    /\ input_filename = ""
    /\ output_filename = ""
    /\ ArchiveStart

InitGui == GuiIdle /\ ArchiveIdle

SpecGui == InitGui /\ [][NextGui]_vars

\* =================================================================== claims
\* What the run read and what it has written.
Source == fs0[input_filename]
Dest == fs[output_filename]
Succeeded == pc = "done" /\ messagebox # "showerror"
Failed == pc = "done" /\ messagebox = "showerror"

\* C1: when remove_excel_protection completes without an exception, the
\* destination is a closed container whose entry names are the source's entry
\* names, each once, in the same order, and no other.
C1_EntryNamesPreserved ==
    Succeeded =>
        /\ Dest.kind = "zip"
        /\ Names(Dest.entries) = Names(Source.entries)

C1_Witness ==
    /\ Succeeded
    /\ Len(Source.entries) = 2
    /\ Len(Dest.entries) = 2
    /\ protection_found_in_any_sheet
    /\ \E i \in 1..2 : Source.entries[i].payload = <<>>

\* The names the claims call worksheet entries, written out.
C2_PassThroughName(name) == name \notin {SHEET1, SHEET2}

\* C2: every entry written so far whose name does not start with
\* 'xl/worksheets/' (whatever its payload holds), and every worksheet entry in
\* which the regex found no occurrence, is in the destination under its name
\* with exactly the bytes read from the source.
C2_UntouchedBytes ==
    \A i \in 1..(idx - 1) :
        LET e == Source.entries[i]
            d == Utf8Decode(e.payload)
        IN  (C2_PassThroughName(e.name) \/ (d.ok /\ Subn(d.text).n = 0)) =>
                /\ i <= Len(Dest.entries)
                /\ Dest.entries[i] = e

C2_Witness ==
    /\ Succeeded
    /\ Len(Dest.entries) = 2
    /\ \E i, j \in 1..2 :
          /\ Source.entries[i].name = WORKBOOK
          /\ Source.entries[i].payload = <<"<", "sheetProtection", "/>">>
          /\ Dest.entries[i].payload = <<"<", "sheetProtection", "/>">>
          /\ Source.entries[j].name = SHEET1
          /\ Source.entries[j].payload = <<"C3", "A9">>
          /\ Dest.entries[j].payload = <<"C3", "A9">>

\* C6 (the claim as stated): a run that fails after the destination was opened
\* (the destination a file of its own) does not leave a closed, openable
\* container at the destination path.
C6_NoCompletedPartialOutput ==
    (Failed /\ Source.kind = "zip" /\ input_filename # output_filename) =>
        Dest.kind # "zip"

\* C7: when the source is missing or is not a zip container, no file of the
\* file system is opened for writing, created or truncated at any step, and the
\* run ends with the error report alone.
C7_BadSourceLeavesDestination ==
    Source.kind # "zip" =>
        /\ fs = fs0
        /\ pc = "done" => (messages = <<ErrorMsg>> /\ messagebox = "showerror")

C7_Witness ==
    /\ pc = "done"
    /\ Source.kind = "notzip"
    /\ output_filename = OUT_PATH
    /\ fs0[OUT_PATH] = ZipOf(OldEntries)

\* The per-entry messages a run owes: one for each entry, in source order,
\* whose written payload is not the payload read.
RECURSIVE C8_OwedFrom(_, _, _)
C8_OwedFrom(src, dst, i) ==
    IF i > Len(src) THEN <<>>
    ELSE (IF dst[i].payload # src[i].payload
          THEN <<RemovedMsg(src[i].name)>> ELSE <<>>)
         \o C8_OwedFrom(src, dst, i + 1)

C8_IsFinal(m) == m.text \in {SuccessMsg("").text, NoProtectionMsg.text}

\* C8: a run that processes every entry without failure has sent, in source
\* order, one per-entry message for each rewritten worksheet entry and for no
\* other, then one final message: the success message naming the destination
\* path when a per-entry message was sent, the no-protection message
\* otherwise.  A final message is sent only once every entry is written and
\* the destination is closed.
C8_ProgressMessages ==
    /\ Succeeded =>
          LET owed == C8_OwedFrom(Source.entries, Dest.entries, 1)
          IN  /\ \A i \in 1..Len(owed) : StartsWithWorksheets(owed[i].arg)
              /\ messages = Append(owed, IF owed # <<>> THEN SuccessMsg(output_filename)
                                                       ELSE NoProtectionMsg)
    /\ \A k \in 1..Len(messages) :
          C8_IsFinal(messages[k]) =>
              /\ k = Len(messages)
              /\ Dest.kind = "zip"
              /\ Len(Dest.entries) = Len(infolist)

C8_Witness ==
    /\ Succeeded
    /\ Len(Source.entries) = 2
    /\ Source.entries[1].name = WORKBOOK
    /\ Source.entries[2].name = SHEET2
    /\ messages = <<RemovedMsg(SHEET2), SuccessMsg(OUT_PATH)>>

\* C10 (the claim as stated): after any run, successful or failed, for every
\* choice of the two paths, the file at input_filename is the container it was
\* when the run began: same entries, same names, order and payloads.
C10_SourceUnchanged ==
    pc = "done" => fs[input_filename] = fs0[input_filename]

\* The first run's entry (the specification SpecIdem has one) once it is
\* written, and its decoded text.
FirstWritten == run = 1 /\ pc \in {"loop", "report", "done"} /\ idx = 2
FirstText == Utf8Decode(Source.entries[1].payload).text

\* The end of the first '/>' at or after position j, whatever lies before it;
\* 0 when there is none.
RECURSIVE C3_FirstClose(_, _)
C3_FirstClose(text, j) ==
    IF j > Len(text) THEN 0
    ELSE IF LitAt(text, j, CloseSeq) THEN j + Len(CloseSeq)
    ELSE C3_FirstClose(text, j + 1)

\* The text with every span from a '<sheetProtection' to the first '/>' after
\* it deleted, left to right, and the number of spans.
RECURSIVE C3_DeleteFrom(_, _)
C3_DeleteFrom(text, p) ==
    IF p > Len(text) THEN [text |-> <<>>, n |-> 0]
    ELSE LET e == IF LitAt(text, p, OpenSeq)
                  THEN C3_FirstClose(text, p + Len(OpenSeq)) ELSE 0
         IN  IF e # 0
             THEN LET r == C3_DeleteFrom(text, e) IN [text |-> r.text, n |-> r.n + 1]
             ELSE LET r == C3_DeleteFrom(text, p + 1)
                  IN  [text |-> <<text[p]>> \o r.text, n |-> r.n]

\* C3 (the claim as stated): a worksheet entry whose text holds N spans from a
\* '<sheetProtection' to the first '/>' after it is written as that text with
\* exactly the N spans deleted, and it is counted as affected (message sent,
\* flag set) exactly when N > 0.
C3_ExactlyTheSpansDeleted ==
    (FirstWritten /\ StartsWithWorksheets(Source.entries[1].name)) =>
        LET want == C3_DeleteFrom(FirstText, 1)
        IN  /\ Dest.entries[1].payload = Utf8Encode(want.text)
            /\ protection_found_in_any_sheet = (want.n > 0)
            /\ (want.n > 0) =
                   (\E k \in 1..Len(messages) :
                        messages[k] = RemovedMsg(Source.entries[1].name))

\* C4 (the claim as stated): a worksheet text that is one protection element,
\* '<sheetProtection', anything but '/>' (newlines too), then '/>', is removed
\* whole.
C4_NewlinesInsideTheTag ==
    ( /\ FirstWritten
      /\ StartsWithWorksheets(Source.entries[1].name)
      /\ LitAt(FirstText, 1, OpenSeq)
      /\ C3_FirstClose(FirstText, Len(OpenSeq) + 1) = Len(FirstText) + 1 ) =>
        /\ Dest.entries[1].payload = <<>>
        /\ protection_found_in_any_sheet

SecondDone == run = 2 /\ pc = "done"

\* C5 (the claim as stated): the second run, on the first run's output,
\* reports that no protection was found and writes what it read.
C5_Idempotent ==
    SecondDone =>
        /\ messages = <<NoProtectionMsg>>
        /\ Dest = Source

\* The positions where the left-to-right scan of subn finds its matches.
RECURSIVE C5_MatchStartsFrom(_, _)
C5_MatchStartsFrom(text, p) ==
    IF p > Len(text) THEN {}
    ELSE LET e == MatchEnd(text, p)
         IN  IF e # 0 THEN {p} \cup C5_MatchStartsFrom(text, e)
             ELSE C5_MatchStartsFrom(text, p + 1)

\* A non-empty proper prefix of '<sheetProtection' ends right before position p.
C5_PrefixBefore(text, p) ==
    \E k \in 1..(Len(OpenSeq) - 1) :
        /\ p - k >= 1
        /\ \A m \in 1..k : text[p - k + m - 1] = OpenSeq[m]

\* A worksheet entry of the first run's source has a match right after the
\* beginning of another '<sheetProtection'.
C5_JoinForms ==
    \E i \in 1..Len(fs[IN_PATH].entries) :
        LET e == fs[IN_PATH].entries[i]
            d == Utf8Decode(e.payload)
        IN  /\ StartsWithWorksheets(e.name)
            /\ d.ok
            /\ \E p \in C5_MatchStartsFrom(d.text, 1) : C5_PrefixBefore(d.text, p)

\* C5 (amended): when no removed occurrence of the first run stood right after
\* a non-empty proper prefix of '<sheetProtection', the second run reports
\* that no protection was found and writes what it read.
C5_IdempotentUnlessJoined ==
    (SecondDone /\ ~C5_JoinForms) =>
        /\ messages = <<NoProtectionMsg>>
        /\ Dest = Source

C5_Witness ==
    /\ SecondDone
    /\ ~C5_JoinForms
    /\ fs[IN_PATH].entries[1].name = SHEET1
    /\ Len(fs[IN_PATH].entries[1].payload) = MaxBufLen
    /\ fs[OUT_PATH].entries[1].payload # fs[IN_PATH].entries[1].payload
    /\ Dest.entries[1].payload # <<>>

\* C9 (the claim as stated): at most one worker is inside
\* remove_excel_protection, and input_file_path is still the path the worker
\* read when it made the call.
C9_OneWorkerFixedInput ==
    /\ Cardinality({t \in 1..MaxThreads : threads[t].pc = "in_call"}) <= 1
    /\ \A t \in 1..MaxThreads :
          threads[t].pc = "in_call" => threads[t].input_filename = input_file_path

====
